---- MODULE Spec2Model ----
(***************************************************************************)
(* A model of src/main.py: a Telegram bot that resolves the formats of a   *)
(* YouTube video, lets the user pick one, downloads it and uploads it.     *)
(*                                                                         *)
(* Text (URLs, identifiers, callback payloads) is a sequence of            *)
(* one-character strings, so that the parsing done by the code (re.sub,    *)
(* urlparse, parse_qs, re.search, str.split) is computed and not assumed.  *)
(* Python's None is the value None below.                                  *)
(***************************************************************************)
EXTENDS Integers, Sequences, FiniteSets, TLC

None == <<"None">>

(***************************************************************************)
(* Text helpers                                                            *)
(***************************************************************************)

\* s[i..] (1-based), the empty text when i is past the end
Drop(s, i) == SubSeq(s, i, Len(s))

\* s[..i-1]
Take(s, i) == SubSeq(s, 1, i - 1)

\* whether text p occurs in s at position i
StartsAt(s, p, i) ==
    /\ i >= 1
    /\ i + Len(p) - 1 <= Len(s)
    /\ SubSeq(s, i, i + Len(p) - 1) = p

\* str.find: the first position at which p occurs in s, 0 when it does not
Find(s, p) ==
    LET hits == {i \in 1..(Len(s) + 1) : StartsAt(s, p, i)}
    IN  IF hits = {} THEN 0 ELSE CHOOSE i \in hits : \A j \in hits : i <= j

\* str.rfind: the last position at which p occurs in s, 0 when it does not
RFind(s, p) ==
    LET hits == {i \in 1..(Len(s) + 1) : StartsAt(s, p, i)}
    IN  IF hits = {} THEN 0 ELSE CHOOSE i \in hits : \A j \in hits : i >= j

\* the substring test `p in s`
Contains(s, p) == Find(s, p) # 0

\* str.startswith
StartsWith(s, p) == StartsAt(s, p, 1)

\* str.split(sep) for a one-character separator: always at least one part
RECURSIVE Split(_, _)
Split(s, sep) ==
    LET i == Find(s, <<sep>>)
    IN  IF i = 0 THEN <<s>>
        ELSE <<Take(s, i)>> \o Split(Drop(s, i + 1), sep)

\* str.split(sep, 1): at most two parts
Split1(s, sep) ==
    LET i == Find(s, <<sep>>)
    IN  IF i = 0 THEN <<s>> ELSE <<Take(s, i), Drop(s, i + 1)>>

\* str.strip() for the blank character
RECURSIVE LStrip(_)
LStrip(s) == IF s # <<>> /\ Head(s) = " " THEN LStrip(Tail(s)) ELSE s

RECURSIVE RStrip(_)
RStrip(s) ==
    IF s # <<>> /\ s[Len(s)] = " " THEN RStrip(Take(s, Len(s))) ELSE s

Strip(s) == RStrip(LStrip(s))

\* sep.join(parts)
RECURSIVE Join(_, _)
Join(parts, sep) ==
    IF parts = <<>> THEN <<>>
    ELSE IF Len(parts) = 1 THEN parts[1]
    ELSE parts[1] \o sep \o Join(Tail(parts), sep)

(***************************************************************************)
(* extract_video_id (src/main.py 39-56)                                    *)
(***************************************************************************)

Digits == {"0", "1", "2", "3", "4", "5", "6", "7", "8", "9"}

Lower == {"a", "b", "c", "d", "e", "f", "g", "h", "i", "j", "k", "l", "m",
          "n", "o", "p", "q", "r", "s", "t", "u", "v", "w", "x", "y", "z"}

Upper == {"A", "B", "C", "D", "E", "F", "G", "H", "I", "J", "K", "L", "M",
          "N", "O", "P", "Q", "R", "S", "T", "U", "V", "W", "X", "Y", "Z"}

\* the character class [0-9A-Za-z_-] of the three patterns
IdChars == Digits \cup Lower \cup Upper \cup {"_", "-"}

\* the repetition count {11} of the three patterns
IdLen == 11

\* re.sub(r'\?si=.*', '', url): "." does not match a line break, and the
\* texts of this model hold none, so everything from the first "?si=" goes
StripSi(url) ==
    LET i == Find(url, <<"?", "s", "i", "=">>)
    IN  IF i = 0 THEN url ELSE Take(url, i)

\* urllib's scheme_chars
SchemeChars == Digits \cup Lower \cup Upper \cup {"+", "-", "."}

\* the letters in order, for str.lower and for the value of a digit
LowerLetters == <<"a", "b", "c", "d", "e", "f", "g", "h", "i", "j", "k", "l", "m",
                  "n", "o", "p", "q", "r", "s", "t", "u", "v", "w", "x", "y", "z">>
UpperLetters == <<"A", "B", "C", "D", "E", "F", "G", "H", "I", "J", "K", "L", "M",
                  "N", "O", "P", "Q", "R", "S", "T", "U", "V", "W", "X", "Y", "Z">>
DecimalDigits == <<"0", "1", "2", "3", "4", "5", "6", "7", "8", "9">>

\* str.lower
LowerChar(c) ==
    IF c \in Upper
    THEN LowerLetters[CHOOSE k \in DOMAIN UpperLetters : UpperLetters[k] = c]
    ELSE c

LowerText(s) == [k \in 1..Len(s) |-> LowerChar(s[k])]

\* urllib's uses_params: the schemes whose last path segment has ;parameters
UsesParams ==
    {<<>>,
     <<"f", "t", "p">>,
     <<"h", "d", "l">>,
     <<"p", "r", "o", "s", "p", "e", "r", "o">>,
     <<"h", "t", "t", "p">>,
     <<"i", "m", "a", "p">>,
     <<"h", "t", "t", "p", "s">>,
     <<"s", "h", "t", "t", "p">>,
     <<"r", "t", "s", "p">>,
     <<"r", "t", "s", "p", "s">>,
     <<"r", "t", "s", "p", "u">>,
     <<"s", "i", "p">>,
     <<"s", "i", "p", "s">>,
     <<"m", "m", "s">>,
     <<"s", "f", "t", "p">>,
     <<"t", "e", "l">>}

\* urlsplit's scheme rule: the text before the first ":" is a scheme when it
\* starts with a letter and holds only scheme characters; the position of
\* that ":", or 0
SchemeColon(url, i) ==
    IF /\ i > 1
       /\ url[1] \in Lower \cup Upper
       /\ \A k \in 1..(i - 1) : url[k] \in SchemeChars
    THEN i ELSE 0

\* the scheme in lower case, empty when the URL has none
SchemeOf(url) == LowerText(Take(url, SchemeColon(url, Find(url, <<":">>))))

AfterScheme(url) == Drop(url, SchemeColon(url, Find(url, <<":">>)) + 1)

\* the position of the first of / ? # at or after position 3, or one past
\* the end: where urlsplit's _splitnetloc ends the network location
NetlocEnd(rest) ==
    IF \E i \in 3..Len(rest) : rest[i] \in {"/", "?", "#"}
    THEN CHOOSE i \in 3..Len(rest) :
            /\ rest[i] \in {"/", "?", "#"}
            /\ \A j \in 3..(i - 1) : rest[j] \notin {"/", "?", "#"}
    ELSE Len(rest) + 1

\* s up to the first occurrence of the character c, all of s without one
Before(s, c) == Take(s, Find(s \o <<c>>, <<c>>))

\* s after the first occurrence of the character c, nothing without one
After(s, c) == Drop(s, Find(s \o <<c>>, <<c>>) + 1)

\* the value of a text of decimal digits
RECURSIVE Decimal(_)
Decimal(s) ==
    IF s = <<>> THEN 0
    ELSE 10 * Decimal(Take(s, Len(s)))
         + (CHOOSE n \in 0..9 : DecimalDigits[n + 1] = s[Len(s)])

\* ipaddress's IPv4Address._parse_octet: one to three digits, no leading
\* zero, at most 255
Octet(s) ==
    /\ s # <<>>
    /\ Len(s) <= 3
    /\ \A k \in 1..Len(s) : s[k] \in Digits
    /\ s = <<"0">> \/ s[1] # "0"
    /\ Decimal(s) <= 255

\* whether the dot-separated parts are those of an IPv4 address
IPv4(octets) == Len(octets) = 4 /\ \A k \in 1..4 : Octet(octets[k])

HexChars == Digits \cup {"a", "b", "c", "d", "e", "f", "A", "B", "C", "D", "E", "F"}

\* ipaddress's IPv6Address._parse_hextet: one to four hexadecimal digits
Hextet(s) ==
    /\ s # <<>>
    /\ Len(s) <= 4
    /\ \A k \in 1..Len(s) : s[k] \in HexChars

\* the colon-separated parts once a dotted IPv4 suffix, which must be valid,
\* has been replaced by the two hextets it stands for
WithoutIPv4Suffix(parts) ==
    IF Contains(parts[Len(parts)], <<".">>)
    THEN Take(parts, Len(parts)) \o <<<<"0">>, <<"0">>>>
    ELSE parts

\* the positions of "::": the empty parts that are neither first nor last
Skips(parts) == {i \in 2..(Len(parts) - 1) : parts[i] = <<>>}

\* the number of parts before and after the "::" at position i; an empty
\* first or last part (the address starts or ends with "::") does not count
PartsHi(parts, i) == IF parts[1] = <<>> THEN i - 2 ELSE i - 1
PartsLo(parts, i) == IF parts[Len(parts)] = <<>> THEN Len(parts) - i - 1
                     ELSE Len(parts) - i

\* the rules of IPv6Address._ip_int_from_str for an address with "::" at i
Compressed(parts, i) ==
    /\ parts[1] = <<>> => PartsHi(parts, i) = 0
    /\ parts[Len(parts)] = <<>> => PartsLo(parts, i) = 0
    /\ PartsHi(parts, i) + PartsLo(parts, i) <= 7
    /\ \A k \in 1..PartsHi(parts, i) : Hextet(parts[k])
    /\ \A k \in (Len(parts) - PartsLo(parts, i) + 1)..Len(parts) : Hextet(parts[k])

\* the rules of IPv6Address._ip_int_from_str on the parts
IPv6Parts(parts) ==
    /\ Len(parts) <= 9
    /\ Cardinality(Skips(parts)) <= 1
    /\ IF Skips(parts) = {}
       THEN Len(parts) = 8 /\ \A k \in 1..8 : Hextet(parts[k])
       ELSE Compressed(parts, CHOOSE i \in Skips(parts) : TRUE)

\* whether the colon-separated parts are those of an IPv6 address
IPv6(parts) ==
    /\ Len(parts) >= 3
    /\ Contains(parts[Len(parts)], <<".">>)
           => IPv4(Split(parts[Len(parts)], "."))
    /\ IPv6Parts(WithoutIPv4Suffix(parts))

\* the pattern \Av[a-fA-F0-9]+\..+\Z of an IPvFuture address, `dot` being
\* the position of the first "." of the host
IPvFuture(host, dot) ==
    /\ dot >= 3
    /\ dot < Len(host)
    /\ \A k \in 2..(dot - 1) : host[k] \in HexChars

\* urllib's _check_bracketed_host: what stands between "[" and "]" is an
\* IPvFuture address when it starts with "v", an IPv6 address otherwise
BracketedHostOk(host) ==
    IF StartsWith(host, <<"v">>) THEN IPvFuture(host, Find(host, <<".">>))
    ELSE IPv6(Split(host, ":"))

\* urlsplit raises ValueError for a network location that holds one of "["
\* and "]" without the other, or a bracketed host that is no address
BadNetloc(netloc) ==
    IF Contains(netloc, <<"[">>) # Contains(netloc, <<"]">>) THEN TRUE
    ELSE IF Contains(netloc, <<"[">>)
    THEN ~BracketedHostOk(Before(After(netloc, "["), "]"))
    ELSE FALSE

\* the position of the last "/" of p, 1 when it has none
LastSlash(p) == IF RFind(p, <<"/">>) = 0 THEN 1 ELSE RFind(p, <<"/">>)

\* urlparse's _splitparams: the ;parameters of the last path segment go
PathOnly(p, slash) ==
    Take(p, slash) \o Before(Drop(p, slash), ";")

\* the path and the query of what follows the network location: the
\* fragment is cut at the first "#", then the query at the first "?"; the
\* ;parameters are cut for the schemes that have them
PathOf(scheme, tail) ==
    IF scheme \in UsesParams
    THEN PathOnly(Before(Before(tail, "#"), "?"),
                  LastSlash(Before(Before(tail, "#"), "?")))
    ELSE Before(Before(tail, "#"), "?")

QueryOf(tail) == After(Before(tail, "#"), "?")

Parsed(scheme, netloc, tail) ==
    [raises |-> BadNetloc(netloc), path |-> PathOf(scheme, tail),
     query |-> QueryOf(tail)]

SplitNetloc(scheme, rest, end) ==
    Parsed(scheme, SubSeq(rest, 3, end - 1), Drop(rest, end))

SplitRest(scheme, rest) ==
    IF StartsWith(rest, <<"/", "/">>)
    THEN SplitNetloc(scheme, rest, NetlocEnd(rest))
    ELSE Parsed(scheme, <<>>, rest)

SplitUrl(url) == SplitRest(SchemeOf(url), AfterScheme(url))

\* urlparse(url): [raises, path, query]; leading blanks are dropped, and the
\* scheme, the network location, the fragment and the ;parameters of the
\* last path segment are split off as urllib does.  The texts of this model
\* are ASCII without control characters and without "%".
urlparse(url) == SplitUrl(LStrip(url))

\* unquote(s.replace('+', ' ')) on texts without "%": "+" reads as a blank
PlusToBlank(s) == [i \in 1..Len(s) |-> IF s[i] = "+" THEN " " ELSE s[i]]

\* one name=value pair of the query: its value when the pair is named v and
\* the value is not empty (keep_blank_values is off), None otherwise
PairV(nv) ==
    IF Len(nv) = 2 /\ nv[2] # <<>> /\ PlusToBlank(nv[1]) = <<"v">>
    THEN PlusToBlank(nv[2]) ELSE None

\* parse_qs(query)['v'][0], or None when no pair of the query is named v:
\* the first pair that gives a value wins
RECURSIVE FirstV(_)
FirstV(pairs) ==
    IF pairs = <<>> THEN None
    ELSE IF PairV(Split1(Head(pairs), "=")) # None
         THEN PairV(Split1(Head(pairs), "="))
         ELSE FirstV(Tail(pairs))

QueryV(query) == FirstV(Split(query, "&"))

\* whether prefix p and then IdLen identifier characters occur in path at i
TokenAt(path, p, i) ==
    /\ StartsAt(path, p, i)
    /\ i + Len(p) + IdLen - 1 <= Len(path)
    /\ \A k \in 0..(IdLen - 1) : path[i + Len(p) + k] \in IdChars

\* the identifier characters after the prefix that matches at i
TokenFrom(path, prefixes, i) ==
    LET p == CHOOSE q \in prefixes : TokenAt(path, q, i)
    IN  SubSeq(path, i + Len(p), i + Len(p) + IdLen - 1)

\* re.search(prefix + '([0-9A-Za-z_-]{11})', path) for a set of literal
\* prefixes: group 1 of the leftmost match, None when there is none
SearchToken(path, prefixes) ==
    IF \E i \in 1..Len(path), p \in prefixes : TokenAt(path, p, i)
    THEN TokenFrom(path, prefixes,
            CHOOSE i \in 1..Len(path) :
                /\ \E p \in prefixes : TokenAt(path, p, i)
                /\ \A j \in 1..(i - 1) : \A p \in prefixes : ~TokenAt(path, p, j))
    ELSE None

\* (?:v=|\/), youtu\.be\/ and youtube\.com\/embed\/ of lines 49-50
Pattern1 == {<<"v", "=">>, <<"/">>}
Pattern2 == {<<"y", "o", "u", "t", "u", ".", "b", "e", "/">>}
Pattern3 == {<<"y", "o", "u", "t", "u", "b", "e", ".", "c", "o", "m", "/",
               "e", "m", "b", "e", "d", "/">>}

\* lines 52-56: the first of the three patterns that matches the path
PathId(path) ==
    IF SearchToken(path, Pattern1) # None THEN SearchToken(path, Pattern1)
    ELSE IF SearchToken(path, Pattern2) # None THEN SearchToken(path, Pattern2)
    ELSE SearchToken(path, Pattern3)

\* lines 44-56 on the parsed URL
IdOf(parsed) ==
    IF parsed.raises THEN [raises |-> TRUE, id |-> None]
    ELSE [raises |-> FALSE,
          id |-> IF QueryV(parsed.query) # None THEN QueryV(parsed.query)
                 ELSE PathId(parsed.path)]

\* extract_video_id(url): [raises, id]; id is None when nothing matches
extract_video_id(url) == IdOf(urlparse(StripSi(url)))

(***************************************************************************)
(* The format list of get_video_info (src/main.py 115-137)                 *)
(***************************************************************************)

\* a format entry's height is <<h>>, or <<>> when yt-dlp gives none
HeightKey(f) == IF f.height = <<>> THEN 0 ELSE f.height[1]

\* the test of line 120: a stream without video or without audio is skipped
Combined(f) == ~(f.vcodec = "none" \/ f.acodec = "none")

\* the key made of the format identifier too
FormatKey_WithId(f) == f.resolution \o <<"_">> \o f.ext \o <<"_">> \o f.format_id

\* format_key of line 126: f"{resolution}_{ext}"
FormatKey(f) == f.resolution \o <<"_">> \o f.ext

\* the loop of lines 119-132: the combined formats, one per format_key, the
\* first of each key kept
RECURSIVE FilterFormats(_, _)
FilterFormats(raw, seen) ==
    IF raw = <<>> THEN <<>>
    ELSE LET f == Head(raw)
         IN  IF ~Combined(f) \/ FormatKey(f) \in seen
             THEN FilterFormats(Tail(raw), seen)
             ELSE <<f>> \o FilterFormats(Tail(raw), seen \cup {FormatKey(f)})

\* f put before the entries that are as high: a sort that is not stable
RECURSIVE InsertByHeight_BeforeEqual(_, _)
InsertByHeight_BeforeEqual(sorted, f) ==
    IF sorted = <<>> THEN <<f>>
    ELSE IF HeightKey(Head(sorted)) > HeightKey(f)
         THEN <<Head(sorted)>> \o InsertByHeight_BeforeEqual(Tail(sorted), f)
         ELSE <<f>> \o sorted

\* f put into a list sorted by descending height, after every entry that is
\* as high: list.sort is stable
RECURSIVE InsertByHeight(_, _)
InsertByHeight(sorted, f) ==
    IF sorted = <<>> THEN <<f>>
    ELSE IF HeightKey(Head(sorted)) >= HeightKey(f)
         THEN <<Head(sorted)>> \o InsertByHeight(Tail(sorted), f)
         ELSE <<f>> \o sorted

\* formats.sort(key=height or 0, reverse=True) of line 134
RECURSIVE SortFormats(_)
SortFormats(fs) ==
    IF fs = <<>> THEN <<>>
    ELSE InsertByHeight(SortFormats(Take(fs, Len(fs))), fs[Len(fs)])

(***************************************************************************)
(* VideoDownloader (src/main.py 80-165)                                    *)
(***************************************************************************)

\* OUTPUT_PATH of line 32
OUTPUT_PATH == <<"d", "o", "w", "n", "l", "o", "a", "d", "s">>

DotMp4 == <<".", "m", "p", "4">>

\* str.endswith
EndsWith(s, p) == Len(p) <= Len(s) /\ Drop(s, Len(s) - Len(p) + 1) = p

\* os.path.splitext(p)[0]: p up to the last "." of its last component, a
\* component made of leading dots only having no extension
SplitextRoot(p) ==
    LET slash == RFind(p, <<"/">>)
        dot   == RFind(p, <<".">>)
    IN  IF /\ dot > slash
           /\ \E k \in (slash + 1)..(dot - 1) : p[k] # "."
        THEN Take(p, dot) ELSE p

\* ydl.prepare_filename(info) under outtmpl of line 92:
\* os.path.join(output_path, '%(title)s.%(ext)s')
prepare_filename(info) == OUTPUT_PATH \o <<"/">> \o info.title \o <<".">> \o info.ext

\* lines 155-156: the path is made to end in .mp4
Mp4Path(file_path) ==
    IF ~EndsWith(file_path, DotMp4) THEN SplitextRoot(file_path) \o DotMp4
    ELSE file_path

\* get_video_info of lines 104-141 on the answer `reply` of
\* ydl.extract_info(url, download=False): [raises] or [raises, title, formats].
\* Returns [success, message, info].
get_video_info(url, reply) ==
    LET vid == extract_video_id(url)
    IN  IF vid.raises
        THEN [success |-> FALSE, message |-> "Video ma'lumotlarini olishda xatolik",
              info |-> None]
        ELSE IF vid.id = None
        THEN [success |-> FALSE, message |-> "Video ID ni ajratishda xatolik",
              info |-> None]
        ELSE IF reply.raises
        THEN [success |-> FALSE, message |-> "Video ma'lumotlarini olishda xatolik",
              info |-> None]
        ELSE [success |-> TRUE, message |-> "",
              info |-> [title |-> reply.title,
                        formats |-> SortFormats(FilterFormats(reply.formats, {})),
                        url |-> url]]

\* download without the os.path.exists test of lines 158-159
download_NoExistsCheck(reply, files) ==
    IF reply.raises
    THEN [success |-> FALSE, message |-> "Yuklab olishda xatolik",
          file_path |-> None, files |-> files]
    ELSE [success |-> TRUE, message |-> "Success",
          file_path |-> Mp4Path(prepare_filename(reply)),
          files |-> IF reply.created
                    THEN files \cup {Mp4Path(prepare_filename(reply))} ELSE files]

\* download of lines 143-165 on the answer `reply` of
\* ydl.extract_info(url, download=True): [raises] or [raises, title, ext,
\* created], created telling whether the converted file was written.
\* `files` is the content of the output directory before the call.
\* Returns [success, message, file_path, files].
download(reply, files) ==
    IF reply.raises
    THEN [success |-> FALSE, message |-> "Yuklab olishda xatolik",
          file_path |-> None, files |-> files]
    ELSE LET file_path == Mp4Path(prepare_filename(reply))
             after     == IF reply.created THEN files \cup {file_path} ELSE files
         IN  IF file_path \notin after
             THEN [success |-> FALSE, message |-> "Video yuklab olinmadi",
                   file_path |-> None, files |-> after]
             ELSE [success |-> TRUE, message |-> "Success",
                   file_path |-> file_path, files |-> after]

\* f"format_{video_id}_{format_id}" of line 181
CallbackData(video_id, format_id) ==
    Join(<<<<"f", "o", "r", "m", "a", "t">>, video_id, format_id>>, <<"_">>)

\* create_format_keyboard of lines 175-182: the callback data of the buttons,
\* one per format, in the order of the list (the button texts are left out)
create_format_keyboard(formats, video_id) ==
    [i \in 1..Len(formats) |-> CallbackData(video_id, formats[i].format_id)]

(***************************************************************************)
(* The environment: inbound texts, and what yt-dlp answers                 *)
(***************************************************************************)

IdPlain == <<"d", "Q", "w", "4", "w", "9", "W", "g", "X", "c", "Q">>
IdUnder == <<"a", "_", "b", "c", "d", "e", "f", "g", "h", "i", "j">>

Youtu == <<"y", "o", "u", "t", "u">>

\* "youtu.be/dQw4w9WgXcQ"
MsgPlain == Youtu \o <<".", "b", "e", "/">> \o IdPlain
\* " youtu.be/a_bcdefghij?si=x"
MsgUnder == <<" ">> \o Youtu \o <<".", "b", "e", "/">> \o IdUnder
                \o <<"?", "s", "i", "=", "x">>
\* "youtu": no identifier
MsgNoId == Youtu
\* "//[youtu": urlparse raises ValueError
MsgBracket == <<"/", "/", "[">> \o Youtu

Messages == {MsgPlain, MsgUnder, MsgNoId, MsgBracket}

\* format entries as yt-dlp lists them: the identifier, the container and
\* the resolution are texts, the height is <<h>> or <<>> for none
F22 == [format_id |-> <<"2", "2">>, ext |-> <<"m", "p", "4">>,
        resolution |-> <<"1", "2", "8", "0", "x", "7", "2", "0">>,
        height |-> <<720>>, vcodec |-> "avc1", acodec |-> "mp4a"]
F136 == [format_id |-> <<"1", "3", "6">>, ext |-> <<"m", "p", "4">>,
         resolution |-> <<"1", "2", "8", "0", "x", "7", "2", "0">>,
         height |-> <<720>>, vcodec |-> "avc1", acodec |-> "mp4a"]
F18 == [format_id |-> <<"1", "8">>, ext |-> <<"m", "p", "4">>,
        resolution |-> <<"6", "4", "0", "x", "3", "6", "0">>,
        height |-> <<360>>, vcodec |-> "avc1", acodec |-> "mp4a"]
F140 == [format_id |-> <<"1", "4", "0">>, ext |-> <<"m", "4", "a">>,
         resolution |-> <<"a", "u", "d", "i", "o", " ", "o", "n", "l", "y">>,
         height |-> <<>>, vcodec |-> "none", acodec |-> "mp4a"]

TitleA == <<"A">>
TitleB == <<"B", ".", "1">>

\* what ydl.extract_info(url, download=False) may do
ResolveReplies ==
    { [raises |-> TRUE],
      [raises |-> FALSE, title |-> TitleA, formats |-> <<F18, F140, F22, F136>>],
      [raises |-> FALSE, title |-> TitleB, formats |-> <<F140>>] }

\* what ydl.extract_info(url, download=True) may do
DownloadReplies ==
    {[raises |-> TRUE]} \cup
    [raises : {FALSE}, title : {TitleA}, ext : {<<"m", "p", "4">>},
     created : BOOLEAN] \cup
    [raises : {FALSE}, title : {TitleB}, ext : {<<"w", "e", "b", "m">>},
     created : BOOLEAN]

\* the buttons a user may press: those of any menu this process or an earlier
\* one (the cache does not outlive the process) has rendered for a video
Buttons ==
    [video_id : {IdPlain, IdUnder}, format_id : {F22.format_id, F18.format_id}]

\* the texts the filter of line 229 lets through, and their URLs (line 231)
UrlMessages == {m \in Messages : Contains(m, Youtu)}
Urls == {Strip(m) : m \in UrlMessages}

\* every path download can return, and every content of the directory
Paths == {Mp4Path(prepare_filename(r)) : r \in {x \in DownloadReplies : ~x.raises}}
Dirs == SUBSET Paths

\* The pure parts of the handlers, computed once for the texts and replies
\* above rather than in every state
IdOfUrl == [url \in Urls |-> extract_video_id(url)]
InfoOfUrl == [url \in Urls |-> [reply \in ResolveReplies |-> get_video_info(url, reply)]]
DownloadOf == [reply \in DownloadReplies |-> [dir \in Dirs |-> download(reply, dir)]]
DataOf == [b \in Buttons |-> CallbackData(b.video_id, b.format_id)]
PartsOf == [b \in Buttons |-> Split(DataOf[b], "_")]
PathOfReply ==
    [reply \in {x \in DownloadReplies : ~x.raises} |-> Mp4Path(prepare_filename(reply))]

(***************************************************************************)
(* State                                                                   *)
(***************************************************************************)

\* how many handlers the dispatcher has running at once
MaxTasks == 2

Tasks == 1..MaxTasks

VARIABLES
    tasks,             \* the running handlers: each one's position and locals
    video_info_cache,  \* line 36: video id -> [title, formats, url]
    files,             \* the paths that exist under OUTPUT_PATH
    resolved,          \* the ids for which get_video_info has returned success
    call               \* one call of a function on its own: [fn, arg, done, result]

vars == <<tasks, video_info_cache, files, resolved, call>>

\* no function is being called on its own: the handlers are running
NoCall == [fn |-> "", arg |-> <<>>, done |-> TRUE, result |-> <<>>]

\* A handler's frame.  kind: "idle", "url" (handle_youtube_url) or "sel"
\* (process_format_selection); pc: the await or the blocking call it is in,
\* or how it ended ("done": returned, "raised": an exception left it);
\* text: message.text or callback_query.data; pressed_id and pressed_fmt:
\* the video and the format of the button that was pressed; the rest are the
\* handler's locals of the same names.  A local the handler will not read
\* again is reset, so that frames differ only in what can still matter.
IdleTask ==
    [kind |-> "idle", pc |-> "idle", text |-> <<>>, pressed_id |-> None,
     pressed_fmt |-> None, url |-> None, video_id |-> None, format_id |-> None,
     message |-> "", file_path |-> None]

\* lines 32-36: the cache starts empty; os.makedirs(exist_ok=True) of line 33
\* keeps whatever an earlier process has left under OUTPUT_PATH
Init ==
    /\ tasks = [t \in Tasks |-> IdleTask]
    /\ video_info_cache = [k \in {} |-> None]
    /\ files \in Dirs
    /\ resolved = {}
    /\ call = NoCall

\* the positions at which a handler is inside a blocking yt-dlp call: the
\* call is made on the event loop's thread, lines 112 and 152
InCall == {"u_resolving", "s_in_download"}

\* the event loop is free to run a handler
LoopFree == \A t \in Tasks : tasks[t].pc \notin InCall

\* the dispatcher starts a handler in the first free slot
FirstIdle(t) ==
    /\ tasks[t].pc = "idle"
    /\ \A u \in Tasks : u < t => tasks[u].pc # "idle"

\* the frame at position pc with only file_path kept of the locals
At(task, pc) ==
    [IdleTask EXCEPT !.kind = task.kind, !.pc = pc, !.file_path = task.file_path]

\* a handler ends: it returns, or an exception leaves it
Returned(task) == At(task, "done")
Raised(task) == At(task, "raised")

\* d[k] = v on a dict
Put(d, k, v) == [x \in DOMAIN d \cup {k} |-> IF x = k THEN v ELSE d[x]]

(***************************************************************************)
(* handle_youtube_url (src/main.py 229-250)                                *)
(***************************************************************************)

\* the test of line 234 left out
NoVideoId_Never(video_id) == FALSE

\* `not video_id` of line 234
NoVideoId(video_id) == video_id = None \/ video_id = <<>>

\* the cache written before the test of `success`
CacheAfterResolve_NoSuccessCheck(cache, video_id, r) == Put(cache, video_id, r.info)

\* the cache rebound to a dict of the new entry alone
CacheAfterResolve_Rebind(cache, video_id, r) ==
    IF ~r.success THEN cache ELSE [x \in {video_id} |-> r.info]

\* the entry written only when the identifier has none (dict.setdefault)
CacheAfterResolve_KeepFirst(cache, video_id, r) ==
    IF ~r.success \/ video_id \in DOMAIN cache THEN cache
    ELSE Put(cache, video_id, r.info)

\* lines 243-247: the cache after get_video_info has returned r
CacheAfterResolve(cache, video_id, r) ==
    IF ~r.success THEN cache ELSE Put(cache, video_id, r.info)

\* lines 231-238: the frame of the handler at its first await, or as the
\* exception of extract_video_id leaves it: nothing catches that one
UrlFrame(text, vid) ==
    IF vid.raises
    THEN [IdleTask EXCEPT !.kind = "url", !.text = text, !.pc = "raised"]
    ELSE IF NoVideoId(vid.id)
    THEN [IdleTask EXCEPT !.kind = "url", !.text = text, !.pc = "u_reject"]
    ELSE [IdleTask EXCEPT !.kind = "url", !.text = text, !.pc = "u_fetching",
                          !.url = Strip(text), !.video_id = vid.id]

UrlFrames == [text \in UrlMessages |-> UrlFrame(text, IdOfUrl[Strip(text)])]

\* lines 229-238: the filter, the identifier, and the first reply
UrlStart(t, text) ==
    /\ LoopFree
    /\ FirstIdle(t)
    /\ text \in UrlMessages
    /\ tasks' = [tasks EXCEPT ![t] = UrlFrames[text]]
    /\ UNCHANGED <<video_info_cache, files, resolved>>
    /\ UNCHANGED call

\* lines 238-241: "fetching" was sent, or the send raised; the handler
\* enters get_video_info, which blocks the loop
UrlFetchingSent(t, ok) ==
    /\ LoopFree
    /\ tasks[t].pc = "u_fetching"
    /\ tasks' = [tasks EXCEPT ![t] =
          IF ok THEN [@ EXCEPT !.pc = "u_resolving"] ELSE Raised(@)]
    /\ UNCHANGED <<video_info_cache, files, resolved>>
    /\ UNCHANGED call

\* lines 243-250: the frame after get_video_info has returned r
UrlAfterResolve(task, r) ==
    IF ~r.success THEN [At(task, "u_error") EXCEPT !.message = r.message]
    ELSE At(task, "u_menu")

\* line 137 reached: the identifier was resolved
ResolvedAfter(ids, url, r) ==
    IF r.success THEN ids \cup {IdOfUrl[url].id} ELSE ids

\* lines 241-250: get_video_info returns; the failure is replied, or the
\* cache is written and the menu replied
UrlResolved(t, reply) ==
    /\ tasks[t].pc = "u_resolving"
    /\ resolved' = ResolvedAfter(resolved, tasks[t].url, InfoOfUrl[tasks[t].url][reply])
    /\ video_info_cache' = CacheAfterResolve(video_info_cache, tasks[t].video_id,
                                             InfoOfUrl[tasks[t].url][reply])
    /\ tasks' = [tasks EXCEPT ![t] =
                    UrlAfterResolve(@, InfoOfUrl[tasks[t].url][reply])]
    /\ UNCHANGED files
    /\ UNCHANGED call

\* lines 235, 244, 250: the handler's last reply was sent, or the send raised
UrlAnswered(t, ok) ==
    /\ LoopFree
    /\ tasks[t].pc \in {"u_reject", "u_error", "u_menu"}
    /\ tasks' = [tasks EXCEPT ![t] = IF ok THEN Returned(@) ELSE Raised(@)]
    /\ UNCHANGED <<video_info_cache, files, resolved>>
    /\ UNCHANGED call

(***************************************************************************)
(* process_format_selection (src/main.py 185-226)                          *)
(***************************************************************************)

\* lines 223-226: the outer handler edits the status to the unexpected error
Unexpected(task) == At(task, "s_unexpected")

\* lines 217-220: the inner handler edits the status to the upload error
UploadError(task) == At(task, "s_uperror")

\* the removal left out
RemoveFile_Skipped(dir, file_path) == dir

\* os.remove(file_path) of line 222 on the directory content
RemoveFile(dir, file_path) == dir \ {file_path}

\* lines 221-226: the finally clause, entered with or without an exception
\* on its way out of the inner handler; os.remove raises when the file is
\* not there, and the outer handler catches either exception
Finally(task, dir, pending) ==
    IF task.file_path \notin dir
    THEN [task |-> Unexpected(task), files |-> dir]
    ELSE [task |-> IF pending THEN Unexpected(task) ELSE Returned(task),
          files |-> RemoveFile(dir, task.file_path)]

\* lines 188-195: the frame of the handler at its first await: the payload
\* is split in three, or ValueError goes to the outer handler; the
\* identifier is looked up in the cache
SelFrame(b, data, parts, cache) ==
    IF Len(parts) # 3
    THEN [IdleTask EXCEPT !.kind = "sel", !.text = data, !.pc = "s_unexpected",
                          !.pressed_id = b.video_id, !.pressed_fmt = b.format_id]
    ELSE IF parts[2] \notin DOMAIN cache
    THEN [IdleTask EXCEPT !.kind = "sel", !.text = data, !.pc = "s_notfound",
                          !.pressed_id = b.video_id, !.pressed_fmt = b.format_id,
                          !.video_id = parts[2], !.format_id = parts[3]]
    ELSE [IdleTask EXCEPT !.kind = "sel", !.text = data, !.pc = "s_dlmsg",
                          !.pressed_id = b.video_id, !.pressed_fmt = b.format_id,
                          !.video_id = parts[2], !.format_id = parts[3],
                          !.url = cache[parts[2]].url]

\* lines 185-195: the filter, the split of the payload, the cache lookup
SelStart(t, b) ==
    /\ LoopFree
    /\ FirstIdle(t)
    /\ StartsWith(DataOf[b], <<"f", "o", "r", "m", "a", "t", "_">>)
    /\ tasks' = [tasks EXCEPT ![t] =
                    SelFrame(b, DataOf[b], PartsOf[b], video_info_cache)]
    /\ UNCHANGED <<video_info_cache, files, resolved>>
    /\ UNCHANGED call

\* lines 191-192: "not found" was answered, or the answer raised
SelNotFoundAnswered(t, ok) ==
    /\ LoopFree
    /\ tasks[t].pc = "s_notfound"
    /\ tasks' = [tasks EXCEPT ![t] = IF ok THEN Returned(@) ELSE Unexpected(@)]
    /\ UNCHANGED <<video_info_cache, files, resolved>>
    /\ UNCHANGED call

\* lines 195-198: "downloading" was shown, or the edit raised; the handler
\* enters download, which blocks the loop
SelDownloadingShown(t, ok) ==
    /\ LoopFree
    /\ tasks[t].pc = "s_dlmsg"
    /\ tasks' = [tasks EXCEPT ![t] =
          IF ok THEN [At(@, "s_in_download") EXCEPT !.video_id = tasks[t].video_id,
                                                    !.format_id = tasks[t].format_id,
                                                    !.url = tasks[t].url]
          ELSE Unexpected(@)]
    /\ UNCHANGED <<video_info_cache, files, resolved>>
    /\ UNCHANGED call

\* the test of line 200 left out: "uploading" follows any download
SelAfterDownload_NoSuccessTest(task, r) ==
    [At(task, "s_upmsg") EXCEPT !.file_path = r.file_path]

\* lines 198-205: the frame after download has returned r
SelAfterDownload(task, r) ==
    IF ~r.success \/ r.file_path = None
    THEN [At(task, "s_dlerror") EXCEPT !.message = r.message]
    ELSE [At(task, "s_upmsg") EXCEPT !.file_path = r.file_path]

\* lines 198-205: download returns; its error is shown, or "uploading"
SelDownloaded(t, reply) ==
    /\ tasks[t].pc = "s_in_download"
    /\ files' = DownloadOf[reply][files].files
    /\ tasks' = [tasks EXCEPT ![t] = SelAfterDownload(@, DownloadOf[reply][files])]
    /\ UNCHANGED <<video_info_cache, resolved>>
    /\ UNCHANGED call

\* lines 201-202: the download error was shown, or showing it raised
SelDlErrorShown(t, ok) ==
    /\ LoopFree
    /\ tasks[t].pc = "s_dlerror"
    /\ tasks' = [tasks EXCEPT ![t] = IF ok THEN Returned(@) ELSE Unexpected(@)]
    /\ UNCHANGED <<video_info_cache, files, resolved>>
    /\ UNCHANGED call

\* lines 205-213: "uploading" was shown and send_video starts, or the edit
\* raised into the inner handler
SelUploadingShown(t, ok) ==
    /\ LoopFree
    /\ tasks[t].pc = "s_upmsg"
    /\ tasks' = [tasks EXCEPT ![t] =
          IF ok THEN At(@, "s_sending") ELSE UploadError(@)]
    /\ UNCHANGED <<video_info_cache, files, resolved>>
    /\ UNCHANGED call

\* lines 209-215: send_video has returned, or it raised; the file may have
\* been removed by another handler while the call was suspended, and the
\* call may return all the same (the file was opened before the removal)
SelVideoSent(t, ok) ==
    /\ LoopFree
    /\ tasks[t].pc = "s_sending"
    /\ tasks' = [tasks EXCEPT ![t] =
          IF ok THEN At(@, "s_deleting") ELSE UploadError(@)]
    /\ UNCHANGED <<video_info_cache, files, resolved>>
    /\ UNCHANGED call

\* lines 215-222: the status message was deleted and the finally clause runs,
\* or the delete raised into the inner handler
SelStatusDeleted(t, ok) ==
    /\ LoopFree
    /\ tasks[t].pc = "s_deleting"
    /\ LET f == Finally(tasks[t], files, FALSE)
       IN  IF ok
           THEN /\ tasks' = [tasks EXCEPT ![t] = f.task]
                /\ files' = f.files
           ELSE /\ tasks' = [tasks EXCEPT ![t] = UploadError(@)]
                /\ UNCHANGED files
    /\ UNCHANGED <<video_info_cache, resolved>>
    /\ UNCHANGED call

\* lines 220-222: the upload error was shown, or showing it raised; the
\* finally clause runs either way
SelUploadErrorShown(t, ok) ==
    /\ LoopFree
    /\ tasks[t].pc = "s_uperror"
    /\ LET f == Finally(tasks[t], files, ~ok)
       IN  /\ tasks' = [tasks EXCEPT ![t] = f.task]
           /\ files' = f.files
    /\ UNCHANGED <<video_info_cache, resolved>>
    /\ UNCHANGED call

\* line 226: the unexpected error was shown, or showing it raised, and
\* nothing catches that
SelUnexpectedShown(t, ok) ==
    /\ LoopFree
    /\ tasks[t].pc = "s_unexpected"
    /\ tasks' = [tasks EXCEPT ![t] = IF ok THEN Returned(@) ELSE Raised(@)]
    /\ UNCHANGED <<video_info_cache, files, resolved>>
    /\ UNCHANGED call

\* the dispatcher is done with a handler that has ended
Reap(t) ==
    /\ tasks[t].pc \in {"done", "raised"}
    /\ tasks' = [tasks EXCEPT ![t] = IdleTask]
    /\ UNCHANGED <<video_info_cache, files, resolved>>
    /\ UNCHANGED call

Next ==
    \/ \E t \in Tasks, text \in Messages : UrlStart(t, text)
    \/ \E t \in Tasks, ok \in BOOLEAN : UrlFetchingSent(t, ok)
    \/ \E t \in Tasks, reply \in ResolveReplies : UrlResolved(t, reply)
    \/ \E t \in Tasks, ok \in BOOLEAN : UrlAnswered(t, ok)
    \/ \E t \in Tasks, b \in Buttons : SelStart(t, b)
    \/ \E t \in Tasks, ok \in BOOLEAN : SelNotFoundAnswered(t, ok)
    \/ \E t \in Tasks, ok \in BOOLEAN : SelDownloadingShown(t, ok)
    \/ \E t \in Tasks, reply \in DownloadReplies : SelDownloaded(t, reply)
    \/ \E t \in Tasks, ok \in BOOLEAN : SelDlErrorShown(t, ok)
    \/ \E t \in Tasks, ok \in BOOLEAN : SelUploadingShown(t, ok)
    \/ \E t \in Tasks, ok \in BOOLEAN : SelVideoSent(t, ok)
    \/ \E t \in Tasks, ok \in BOOLEAN : SelStatusDeleted(t, ok)
    \/ \E t \in Tasks, ok \in BOOLEAN : SelUploadErrorShown(t, ok)
    \/ \E t \in Tasks, ok \in BOOLEAN : SelUnexpectedShown(t, ok)
    \/ \E t \in Tasks : Reap(t)

Spec == Init /\ [][Next]_vars

(***************************************************************************)
(* Properties                                                              *)
(***************************************************************************)

\* a selection handler at its first await, the pressed button still known
JustPressed(t) == tasks[t].kind = "sel" /\ tasks[t].text # <<>>

\* a handler that has ended
Ended(t) == tasks[t].pc \in {"done", "raised"}

\* the states of a request from the accepted selection to the end of download
Downloading(t) == tasks[t].pc \in {"s_dlmsg", "s_in_download"}

\* the upload step: lines 204-220, inside the inner try
UploadStep == {"s_upmsg", "s_sending", "s_deleting", "s_uperror"}

\* C1: a selection whose button was rendered for an identifier that has never
\* been resolved is answered "not found" (and so neither raises nor reaches
\* the downloader).
C1_UnresolvedIsAnsweredNotFound ==
    \A t \in Tasks :
        JustPressed(t) /\ tasks[t].pressed_id \notin resolved
            => tasks[t].pc = "s_notfound"

\* C2: every key of the cache is an identifier for which get_video_info has
\* returned success.
C2_CachedOnlyAfterSuccess == DOMAIN video_info_cache \subseteq resolved

\* an identifier is cached while the resolution of another has failed
C2_Witness ==
    /\ IdPlain \in DOMAIN video_info_cache
    /\ IdUnder \notin DOMAIN video_info_cache
    /\ \E t \in Tasks : tasks[t].pc = "u_error"

\* C3: when the handler of a selection whose download returned a path leaves
\* the upload step (the upload done, the upload failed, or an edit or delete
\* of the status raising), the file at that path is gone, and the handler
\* does not end from inside the upload step in any other way; what is left
\* of the handler after the removal (the report of an unexpected error)
\* writes no file.
C3_FileRemovedAfterUpload ==
    [][\A t \in Tasks :
          /\ tasks[t].pc \in UploadStep /\ tasks'[t].pc \notin UploadStep
                => /\ tasks[t].file_path # None
                   /\ tasks[t].file_path \notin files'
                   /\ tasks'[t].pc \in {"done", "s_unexpected"}
          /\ (/\ tasks[t].pc = "s_unexpected"
              /\ tasks[t].file_path # None
              /\ tasks'[t].pc # "s_unexpected")
                => Ended(t)' /\ files' = files]_vars

\* a selection has ended after its download returned a path, and the file is
\* gone
C3_Witness ==
    \E t \in Tasks :
        /\ tasks[t].kind = "sel"
        /\ tasks[t].pc = "done"
        /\ tasks[t].file_path # None
        /\ tasks[t].file_path \notin files

PressedParts(task) ==
    PartsOf[[video_id |-> task.pressed_id, format_id |-> task.pressed_fmt]]

C5_NoEntryWithoutFormats ==
    \A k \in DOMAIN video_info_cache : video_info_cache[k].formats # <<>>

\* C6: no exception leaves handle_youtube_url or process_format_selection.
C6_NoExceptionLeavesHandler == \A t \in Tasks : tasks[t].pc # "raised"

\* the callback data of the buttons of the menu rendered from a cache entry
Rendered(video_id) ==
    {create_format_keyboard(video_info_cache[video_id].formats, video_id)[i] :
        i \in 1..Len(video_info_cache[video_id].formats)}

\* C7: pressing a button of the menu of a resolved video gives the handler
\* that video's identifier and that button's format token, and the handler
\* goes on to download from the cached URL.
C7_PayloadRoundTrips ==
    \A t \in Tasks :
        /\ JustPressed(t)
        /\ tasks[t].pressed_id \in DOMAIN video_info_cache
        /\ tasks[t].text \in Rendered(tasks[t].pressed_id)
        => /\ tasks[t].pc = "s_dlmsg"
           /\ tasks[t].video_id = tasks[t].pressed_id
           /\ tasks[t].format_id = tasks[t].pressed_fmt
           /\ tasks[t].url = video_info_cache[tasks[t].pressed_id].url

\* C8: a message whose URL gives no identifier is rejected, and the handler
\* then only ends: it sends no "fetching" status, does not call the
\* resolver, and leaves the cache, the files and the resolved identifiers as
\* they were.
C8_RejectionKeepsNoState ==
    [][\A t \in Tasks :
          /\ /\ tasks[t].pc = "idle"
             /\ tasks'[t].kind = "url"
             /\ ~IdOfUrl[Strip(tasks'[t].text)].raises
             /\ IdOfUrl[Strip(tasks'[t].text)].id = None
             => /\ tasks'[t].pc = "u_reject"
                /\ UNCHANGED <<video_info_cache, files, resolved>>
          /\ tasks[t].pc = "u_reject" /\ tasks'[t].pc # "u_reject"
             => /\ Ended(t)'
                /\ UNCHANGED <<video_info_cache, files, resolved>>]_vars

\* a message without an identifier has been rejected
C8_Witness ==
    \E t \in Tasks : tasks[t].pc = "u_reject" /\ tasks[t].text = MsgNoId

\* the diagnostics of download, lines 159 and 165
DownloadDiagnostic(reply) ==
    IF reply.raises THEN "Yuklab olishda xatolik" ELSE "Video yuklab olinmadi"

\* C9: when yt-dlp raises, or the file is not at the expected path after the
\* call, download returns a failure: the handler shows its diagnostic and
\* then only ends or reports an unexpected error of the edit; it uploads
\* nothing, removes no file and leaves the cache as it was.
C9_DownloadFailureIsShown ==
    [][\A t \in Tasks :
          /\ tasks[t].pc = "s_in_download" /\ tasks'[t].pc # "s_in_download"
                => \A reply \in DownloadReplies :
                      /\ \/ reply.raises
                         \/ PathOfReply[reply] \notin files'
                      /\ SelDownloaded(t, reply)
                      => /\ tasks'[t].pc = "s_dlerror"
                         /\ tasks'[t].message = DownloadDiagnostic(reply)
                         /\ tasks'[t].file_path = None
                         /\ files \subseteq files'
                         /\ video_info_cache' = video_info_cache
          /\ tasks[t].pc = "s_dlerror" /\ tasks'[t].pc # "s_dlerror"
                => /\ tasks'[t].pc \in {"done", "s_unexpected"}
                   /\ tasks'[t].file_path = None
                   /\ files' = files
                   /\ video_info_cache' = video_info_cache]_vars

\* a download has returned without its file, and the handler shows that
C9_Witness ==
    \E t \in Tasks :
        tasks[t].pc = "s_dlerror" /\ tasks[t].message = "Video yuklab olinmadi"

\* C10: while a handler is inside its extract_info call, resolving or
\* downloading, the event loop can start the handler of another inbound
\* message in a free slot.
C10_LoopAcceptsDuringCall ==
    \A t \in Tasks :
        tasks[t].pc \in InCall /\ (\E u \in Tasks : tasks[u].pc = "idle")
            => ENABLED (\E u \in Tasks, text \in Messages : UrlStart(u, text))

\* the handler t comes to the position pc by this step
Enters(t, pc) == tasks[t].pc # pc /\ tasks'[t].pc = pc

\* C15: the steps of a request happen in the order of the code.  The resolver
\* is called only after "fetching" was sent; the cache is written only by the
\* step on which the resolver returns, and the menu is sent after it; a
\* selection reads the cache, of an identifier already resolved, before
\* "downloading" is shown; the downloader is called only after "downloading"
\* was shown; "uploading" is shown only after the downloader returned a path
\* that exists; the upload starts only after "uploading" was shown; and a
\* file is removed only by a handler leaving the upload step, after the
\* upload or the failure to announce it.
C15_StepsInOrder ==
    [][/\ \A t \in Tasks :
             /\ Enters(t, "u_resolving") => tasks[t].pc = "u_fetching"
             /\ Enters(t, "u_menu")
                   => /\ tasks[t].pc = "u_resolving"
                      /\ tasks[t].video_id \in DOMAIN video_info_cache'
                      /\ video_info_cache'[tasks[t].video_id].url = tasks[t].url
             /\ Enters(t, "s_dlmsg")
                   => /\ tasks[t].pc = "idle"
                      /\ tasks'[t].video_id \in DOMAIN video_info_cache
                      /\ tasks'[t].video_id \in resolved
                      /\ tasks'[t].url = video_info_cache[tasks'[t].video_id].url
             /\ Enters(t, "s_in_download")
                   => tasks[t].pc = "s_dlmsg" /\ tasks'[t].url = tasks[t].url
             /\ Enters(t, "s_upmsg")
                   => /\ tasks[t].pc = "s_in_download"
                      /\ tasks'[t].file_path \in files'
             /\ Enters(t, "s_sending") => tasks[t].pc = "s_upmsg"
             /\ Enters(t, "s_deleting") => tasks[t].pc = "s_sending"
       /\ video_info_cache' # video_info_cache
             => \E t \in Tasks : Enters(t, "u_menu")
       /\ ~(files \subseteq files')
             => \E t \in Tasks :
                   /\ tasks[t].pc \in {"s_deleting", "s_uperror"}
                   /\ tasks'[t].pc \notin UploadStep
                   /\ files' = files \ {tasks[t].file_path}]_vars

\* a request has gone through every step but the last: its video was sent
\* from the file, which is still there, and its identifier is in the cache
C15_Witness ==
    \E t \in Tasks :
        /\ tasks[t].pc = "s_deleting"
        /\ tasks[t].file_path \in files
        /\ video_info_cache # <<>>

\* C16: while a request is in the upload step, the file its download returned
\* exists: no other request's removal takes it away before the upload has
\* finished, and the request's own removal finds it.
C16_FilePresentWhileUploading ==
    \A t \in Tasks : tasks[t].pc \in UploadStep => tasks[t].file_path \in files

\* C17: the cache entry of an identifier is the result of the last successful
\* resolution of it that has completed.  The step on which a resolution
\* returns success leaves its title, formats and URL as the entry of its
\* identifier and the other entries as they were; no other step, and no step
\* of a selection handler, changes the cache; a selection takes its URL from
\* the entry it finds when it starts and downloads from that URL.
C17_CacheHoldsLastResolution ==
    [][/\ \A t \in Tasks :
             /\ tasks[t].pc = "u_resolving" /\ tasks'[t].pc # "u_resolving"
                   => \A reply \in ResolveReplies :
                         (/\ InfoOfUrl[tasks[t].url][reply].success
                          /\ UrlResolved(t, reply))
                         => /\ DOMAIN video_info_cache'
                                 = DOMAIN video_info_cache \cup {tasks[t].video_id}
                            /\ video_info_cache'[tasks[t].video_id]
                                 = [title |-> reply.title,
                                    formats |-> InfoOfUrl[tasks[t].url][reply].info.formats,
                                    url |-> tasks[t].url]
                            /\ \A k \in DOMAIN video_info_cache \ {tasks[t].video_id} :
                                  video_info_cache'[k] = video_info_cache[k]
             /\ tasks'[t] # tasks[t] /\ "sel" \in {tasks[t].kind, tasks'[t].kind}
                   => video_info_cache' = video_info_cache
             /\ Enters(t, "s_dlmsg")
                   => tasks'[t].url = video_info_cache[tasks'[t].video_id].url
             /\ tasks[t].pc = "s_dlmsg" /\ tasks'[t].pc = "s_in_download"
                   => tasks'[t].url = tasks[t].url
       /\ video_info_cache' # video_info_cache
             => \E t \in Tasks :
                   tasks[t].pc = "u_resolving" /\ tasks'[t].pc = "u_menu"]_vars

\* two resolutions of one identifier have completed, neither handler has yet
\* sent its menu, and the entry is the result with the second title
C17_Witness ==
    /\ \A t \in {1, 2} : tasks[t].kind = "url" /\ tasks[t].pc = "u_menu"
    /\ DOMAIN video_info_cache = {IdPlain}
    /\ video_info_cache[IdPlain].title = TitleB

(***************************************************************************)
(* extract_video_id called on its own (src/main.py 39-56)                  *)
(***************************************************************************)

\* how many query parameters a URL is written with
MaxParams == 2

\* what a URL is written from before its query: a watch page, a short link
\* with an identifier in its path, paths whose token is two characters longer
\* and one character shorter than an identifier, a host with an unclosed
\* bracket, and a text with nothing of a video in it
BaseWatch == <<"h", "t", "t", "p", "s", ":", "/", "/", "w", "w", "w", ".", "y", "o", "u", "t", "u", "b", "e", ".", "c", "o", "m", "/", "w", "a", "t", "c", "h">>
BaseShort == Youtu \o <<".", "b", "e", "/">> \o IdUnder
BaseLong == Youtu \o <<"/">> \o IdPlain \o <<"x", "y">>
BaseTen == Youtu \o <<"/">> \o Take(IdPlain, IdLen)
Bases == {BaseWatch, BaseShort, BaseLong, BaseTen, MsgBracket, MsgNoId}

\* the query parameters: v with an identifier, with a short value and with
\* no value, the share-tracking si, and list
ParamPool ==
    { [name |-> <<"v">>, value |-> IdPlain],
      [name |-> <<"v">>, value |-> <<"a", "b">>],
      [name |-> <<"v">>, value |-> <<>>],
      [name |-> <<"s", "i">>, value |-> <<"x">>],
      [name |-> <<"l", "i", "s", "t">>, value |-> <<"P">>] }

ParamLists == UNION {[1..n -> ParamPool] : n \in 0..MaxParams}

\* what may follow the query: nothing, or the share-tracking suffix
Suffixes == {<<>>, <<"?", "s", "i", "=", "a", "b", "c">>}

\* name=value&name=value
RECURSIVE WriteQuery(_)
WriteQuery(params) ==
    IF params = <<>> THEN <<>>
    ELSE Head(params).name \o <<"=">> \o Head(params).value
         \o (IF Len(params) = 1 THEN <<>> ELSE <<"&">> \o WriteQuery(Tail(params)))

\* the URL as it is written
WriteUrl(base, params, suffix) ==
    base \o (IF params = <<>> THEN <<>> ELSE <<"?">> \o WriteQuery(params)) \o suffix

ExtractArgs ==
    {[base |-> b, params |-> ps, suffix |-> x, url |-> WriteUrl(b, ps, x)] :
        b \in Bases, ps \in ParamLists, x \in Suffixes}

InitExtract ==
    /\ tasks = [t \in Tasks |-> IdleTask]
    /\ video_info_cache = [k \in {} |-> None]
    /\ files = {}
    /\ resolved = {}
    /\ call \in [fn : {"extract_video_id"}, arg : ExtractArgs, done : {FALSE},
                 result : {<<>>}]

\* lines 39-56: the call returns, or raises
ExtractReturns ==
    /\ call.fn = "extract_video_id"
    /\ ~call.done
    /\ call' = [call EXCEPT !.done = TRUE,
                            !.result = extract_video_id(call.arg.url)]
    /\ UNCHANGED <<tasks, video_info_cache, files, resolved>>

NextExtract == ExtractReturns

SpecExtract == InitExtract /\ [][NextExtract]_vars

\* the value of the first parameter named v that has a value, None without one
RECURSIVE WrittenV(_)
WrittenV(params) ==
    IF params = <<>> THEN None
    ELSE IF Head(params).name = <<"v">> /\ Head(params).value # <<>>
         THEN Head(params).value
         ELSE WrittenV(Tail(params))

\* whether a run of exactly IdLen identifier characters, with no identifier
\* character before or after it, stands in the text
HasIdToken(text) ==
    \E i \in 1..(Len(text) - IdLen + 1) :
        /\ \A k \in i..(i + IdLen - 1) : text[k] \in IdChars
        /\ i = 1 \/ text[i - 1] \notin IdChars
        /\ i + IdLen > Len(text) \/ text[i + IdLen] \notin IdChars

ExtractDone == call.fn = "extract_video_id" /\ call.done

\* C11: for a URL written with a parameter v=<id>, <id> not empty,
\* extract_video_id returns <id>: whatever the other parameters and their
\* order, with or without the ?si= suffix, and whatever the path holds.  (The
\* URL with the unclosed bracket is left to C12.)
C11_QueryIdIsReturned ==
    /\ ExtractDone
    /\ call.arg.base # MsgBracket
    /\ WrittenV(call.arg.params) # None
    => call.result = [raises |-> FALSE, id |-> WrittenV(call.arg.params)]

\* C12: for a text with no parameter v and no token of exactly IdLen
\* identifier characters, extract_video_id returns None and does not raise.
C12_UnrelatedGivesNone ==
    /\ ExtractDone
    /\ WrittenV(call.arg.params) = None
    /\ ~HasIdToken(call.arg.url)
    => call.result = [raises |-> FALSE, id |-> None]

(***************************************************************************)
(* The format list of get_video_info on its own (src/main.py 115-137)      *)
(***************************************************************************)

\* how many entries yt-dlp lists
MaxFormats == 4

F37 == [format_id |-> <<"3", "7">>, ext |-> <<"m", "p", "4">>,
        resolution |-> <<"1", "9", "2", "0", "x", "1", "0", "8", "0">>,
        height |-> <<1080>>, vcodec |-> "avc1", acodec |-> "mp4a"]
F135 == [format_id |-> <<"1", "3", "5">>, ext |-> <<"m", "p", "4">>,
         resolution |-> <<"8", "5", "4", "x", "4", "8", "0">>,
         height |-> <<480>>, vcodec |-> "avc1", acodec |-> "mp4a"]
F247 == [format_id |-> <<"2", "4", "7">>, ext |-> <<"w", "e", "b", "m">>,
         resolution |-> <<"1", "2", "8", "0", "x", "7", "2", "0">>,
         height |-> <<720>>, vcodec |-> "vp9", acodec |-> "opus"]
F137 == [format_id |-> <<"1", "3", "7">>, ext |-> <<"m", "p", "4">>,
         resolution |-> <<"1", "9", "2", "0", "x", "1", "0", "8", "0">>,
         height |-> <<1080>>, vcodec |-> "avc1", acodec |-> "none"]
F17 == [format_id |-> <<"1", "7">>, ext |-> <<"3", "g", "p">>,
        resolution |-> <<"1", "7", "6", "x", "1", "4", "4">>,
        height |-> <<>>, vcodec |-> "mp4v", acodec |-> "mp4a"]

\* the entries a list is drawn from: two of one resolution and container
\* (F22, F136), a third as high in another container (F247), one without
\* video (F140), one without audio (F137) of the resolution and container
\* of F37, one without a height (F17), and two more heights
FormatPool == {F18, F22, F136, F140, F37, F137, F135, F247, F17}

FormatLists == UNION {[1..n -> FormatPool] : n \in 0..MaxFormats}

InitFormats ==
    /\ tasks = [t \in Tasks |-> IdleTask]
    /\ video_info_cache = [k \in {} |-> None]
    /\ files = {}
    /\ resolved = {}
    /\ call \in [fn : {"get_video_info"}, arg : FormatLists, done : {FALSE},
                 result : {<<>>}]

\* lines 104-137: get_video_info returns for a video whose entries are
\* call.arg; the result kept is the list of formats it returns
FormatsReturn ==
    /\ call.fn = "get_video_info"
    /\ ~call.done
    /\ call' = [call EXCEPT
                   !.done = TRUE,
                   !.result = get_video_info(MsgPlain,
                                  [raises |-> FALSE, title |-> TitleA,
                                   formats |-> call.arg]).info.formats]
    /\ UNCHANGED <<tasks, video_info_cache, files, resolved>>

NextFormats == FormatsReturn

SpecFormats == InitFormats /\ [][NextFormats]_vars

FormatsDone == call.fn = "get_video_info" /\ call.done

\* the resolution and the container of an entry
Pair(f) == <<f.resolution, f.ext>>

\* an entry with a video and an audio codec: neither is marked "none"
HasBothCodecs(f) == f.vcodec # "none" /\ f.acodec # "none"

\* the position in raw of the first entry with both codecs and the pair pr
FirstWithPair(raw, pr) ==
    CHOOSE j \in 1..Len(raw) :
        /\ HasBothCodecs(raw[j]) /\ Pair(raw[j]) = pr
        /\ \A k \in 1..(j - 1) : ~(HasBothCodecs(raw[k]) /\ Pair(raw[k]) = pr)

\* C13: the list get_video_info returns holds only entries of the raw list
\* that have both codecs, holds no (resolution, container) pair twice, and
\* holds for each pair the first entry of the raw list that has both codecs
\* and that pair, as it was listed.
C13_FormatsFilteredFirstSeen ==
    FormatsDone =>
        /\ \A i \in 1..Len(call.result) :
              /\ HasBothCodecs(call.result[i])
              /\ \E j \in 1..Len(call.arg) : call.arg[j] = call.result[i]
        /\ \A i, j \in 1..Len(call.result) :
              i # j => Pair(call.result[i]) # Pair(call.result[j])
        /\ \A i \in 1..Len(call.result) :
              call.result[i]
                 = call.arg[FirstWithPair(call.arg, Pair(call.result[i]))]

\* a list with an entry without video, one without audio and two entries of
\* one pair: the first of the two is kept, with its own identifier
C13_Witness ==
    /\ FormatsDone
    /\ call.arg = <<F140, F137, F136, F22>>
    /\ call.result = <<F136>>

\* the height a list is sorted by: 0 for an entry without one
HeightOrZero(f) == IF f.height = <<>> THEN 0 ELSE f.height[1]

\* the position of the first occurrence of the entry e in raw
FirstIndex(raw, e) ==
    CHOOSE j \in 1..Len(raw) : raw[j] = e /\ \A k \in 1..(j - 1) : raw[k] # e

\* C14: the list get_video_info returns is in descending order of height, an
\* entry without a height counting as 0, and entries of one height are in
\* the order in which the raw list has them.
C14_FormatsSortedStable ==
    FormatsDone =>
        \A i, j \in 1..Len(call.result) :
            i < j =>
                \/ HeightOrZero(call.result[i]) > HeightOrZero(call.result[j])
                \/ /\ HeightOrZero(call.result[i]) = HeightOrZero(call.result[j])
                   /\ FirstIndex(call.arg, call.result[i])
                        < FirstIndex(call.arg, call.result[j])

\* the heights 720, none, 1080, 480 come out as 1080, 720, 480, none
C14_Witness ==
    /\ FormatsDone
    /\ call.arg = <<F22, F17, F37, F135>>
    /\ call.result = <<F37, F22, F135, F17>>

====
